---- MODULE Spec2Model ----
(***************************************************************************)
(* A model of src/app.py: the Block record with its canonical hash, and    *)
(* the Blockchain with its proof-of-work search, candidate validation,     *)
(* transaction pool, append operation and whole-chain validation.          *)
(*                                                                         *)
(* Transaction dicts are Python objects: the pool and the block payloads   *)
(* hold references to them (list.copy() is shallow), and add_transaction   *)
(* writes the 'timestamp' key of the object it is given.  The model keeps  *)
(* the objects' timestamps in entry_timestamp and the references in the    *)
(* pool and in the payloads.                                               *)
(***************************************************************************)
EXTENDS Integers, Sequences, FiniteSets, TLC

VARIABLES
    chain,                 \* self.chain: sequence of blocks
    difficulty,            \* self.difficulty
    pending_transactions,  \* self.pending_transactions: sequence of references
    entry_timestamp,       \* transaction object -> its 'timestamp' key (0: no key yet)
    clock,                 \* the last value time.time() returned
    returned,              \* what the last call returned to the caller
    tampered,              \* the direct attribute write made by the caller, if any
    candidate,             \* a block a caller built and holds outside the chain
    calls,                 \* add_transaction and append_block calls made so far
    mining                 \* the last mine_block call: where it stands, who made
                           \* it, and the block as it was passed in

vars == <<chain, difficulty, pending_transactions, entry_timestamp, clock,
          returned, tampered, candidate, calls, mining>>

(***************************************************************************)
(* Bounds of the model.                                                    *)
(***************************************************************************)
MaxDifficulty == 4     \* difficulties 0..MaxDifficulty are constructed
LowDifficulty == 1     \* the difficulties of the chains driven through MaxCalls calls
MaxCalls == 4          \* add_transaction and append_block calls on one chain
MaxCallsAnyDifficulty == 2     \* the same, on the chains of every difficulty
NumEntries == 2        \* transaction objects the caller holds
MaxTime == 2           \* time.time() returns 1..MaxTime
MaxCandidateDifficulty == 2    \* difficulties at which built candidates are validated
MaxNonce == 3          \* nonces of the candidates a caller builds

\* hashlib.sha256(...).hexdigest() is 64 hexadecimal characters.
DigestLen == 64

Min(a, b) == IF a <= b THEN a ELSE b
Max(a, b) == IF a >= b THEN a ELSE b

Entries == 1..NumEntries
Times == 1..MaxTime

\* The content of a transaction object other than its timestamp.  Objects 2
\* and up carry the same content: distinct objects, equal dicts.
EntryBody(e) == IF e = 1 THEN "Alice->Bob:10" ELSE "Bob->Charlie:5"

(***************************************************************************)
(* Python strings of hexadecimal characters are sequences over 0..15.      *)
(***************************************************************************)
\* s[:n] with a negative n taken as 0.
SliceClamped(s, n) == SubSeq(s, 1, Min(Max(n, 0), Len(s)))

\* s[:n]
Slice(s, n) ==
    IF n >= 0 THEN SubSeq(s, 1, Min(n, Len(s)))
              ELSE SubSeq(s, 1, Max(Len(s) + n, 0))

\* "0" * n
Zeros(n) == SubSeq([i \in 1..Max(n, 1) |-> 0], 1, Max(n, 0))

(***************************************************************************)
(* Payloads.  data is one of                                               *)
(*   {'transactions': [references]}   built by append_block(None),         *)
(*   {'message': msg}                 supplied, or the genesis payload,    *)
(*   {}                               supplied.                            *)
(***************************************************************************)
TransactionsData(txs) == [tag |-> "transactions", txs |-> txs, msg |-> ""]
MessageData(m) == [tag |-> "message", txs |-> <<>>, msg |-> m]
EmptyData == [tag |-> "empty", txs |-> <<>>, msg |-> ""]
GenesisData == MessageData("Bloque Genesis")

\* The payloads a caller passes to append_block.
SuppliedData == {MessageData("Bloque con datos directos"), EmptyData}

\* json.dumps(transaction, sort_keys=True): the keys in sorted order, the
\* timestamp read through the reference at the time of the call.
DumpsEntry(e, ts) == << <<"body", EntryBody(e)>>, <<"timestamp", ts[e]>> >>

\* json.dumps(data, sort_keys=True)
DumpsData(d, ts) ==
    [tag |-> d.tag,
     txs |-> [i \in 1..Len(d.txs) |-> DumpsEntry(d.txs[i], ts)],
     msg |-> d.msg]

\* The string calculate_hash digests: the five fields, keys sorted.
BlockString(index, previous_hash, timestamp, data, nonce, ts) ==
    << <<"data", DumpsData(data, ts)>>,
       <<"index", index>>,
       <<"nonce", nonce>>,
       <<"previous_hash", previous_hash>>,
       <<"timestamp", timestamp>> >>

(***************************************************************************)
(* SHA-256.  A digest is [hex, pre]: hex is the 64 characters, pre the     *)
(* digested string, carried so that distinct strings have distinct         *)
(* digests (collision resistance).  The number of leading "0" characters   *)
(* is a deterministic function of the string that, as the nonce runs,      *)
(* takes every value 0..MaxDifficulty and the all-zero digest.             *)
(***************************************************************************)
DataWeight(dd) ==
    Len(dd.txs) + (IF dd.tag = "message" THEN 4 ELSE 0)
    + (IF Len(dd.txs) > 0 THEN dd.txs[1][2][2] ELSE 0)

StringWeight(s) ==
    DataWeight(s[1][2]) + 3 * s[2][2] + s[3][2] + Len(s[4][2].pre) + 2 * s[5][2]

ZeroPeriod == MaxDifficulty + 2

LeadingZeros(w) ==
    LET m == w % ZeroPeriod IN IF m = MaxDifficulty + 1 THEN DigestLen ELSE m

Sha256(s) ==
    LET w == StringWeight(s)
        lz == LeadingZeros(w)
    IN  [hex |-> [i \in 1..DigestLen |-> IF i <= lz THEN 0 ELSE 1 + ((w + i) % 15)],
         pre |-> s]

\* The literal "0" given to the genesis block as previous_hash.
SentinelHash == [hex |-> <<0>>, pre |-> <<>>]

(***************************************************************************)
(* Block                                                                   *)
(***************************************************************************)
calculate_hash(b, ts) ==
    Sha256(BlockString(b.index, b.previous_hash, b.timestamp, b.data, b.nonce, ts))

\* Block.__init__ with the default nonce
Block(index, previous_hash, timestamp, data, ts) ==
    LET b == [index |-> index, previous_hash |-> previous_hash,
              timestamp |-> timestamp, data |-> data, nonce |-> 0,
              hash |-> SentinelHash]
    IN  [b EXCEPT !.hash = calculate_hash(b, ts)]


(***************************************************************************)
(* Blockchain                                                              *)
(***************************************************************************)
\* get_latest_block returning self.chain[0] where self.chain[-1] is.
get_latest_block_first == chain[1]

get_latest_block == chain[Len(chain)]

\* The loop condition comparing one character less than the difficulty.
MeetsTargetShort(h, d) == Slice(h.hex, d - 1) = Zeros(d - 1)

\* not (block.hash[:self.difficulty] != target), target = "0" * self.difficulty
MeetsTarget(h, d) == Slice(h.hex, d) = Zeros(d)

\* A pass of the search loop that also refreshes the block's timestamp.
MineStepRestamp(b, ts) ==
    LET b1 == [b EXCEPT !.nonce = b.nonce + 1, !.timestamp = b.timestamp + 1]
    IN  [b1 EXCEPT !.hash = calculate_hash(b1, ts)]

\* A pass of the search loop that steps the nonce by two.
MineStepByTwo(b, ts) ==
    LET b1 == [b EXCEPT !.nonce = b.nonce + 2]
    IN  [b1 EXCEPT !.hash = calculate_hash(b1, ts)]

\* One pass of the search loop: block.nonce += 1; block.hash = calculate_hash()
MineStep(b, ts) ==
    LET b1 == [b EXCEPT !.nonce = b.nonce + 1]
    IN  [b1 EXCEPT !.hash = calculate_hash(b1, ts)]

\* mine_block with an if where the while is: the search makes one pass at most.
mine_block_once(b, d, ts) ==
    IF Slice(b.hash.hex, d) = Zeros(d) THEN b ELSE MineStep(b, ts)

\* The search loop: the condition is tested before each pass.
RECURSIVE mine_block(_, _, _)
mine_block(b, d, ts) ==
    IF MeetsTarget(b.hash, d) THEN b ELSE mine_block(MineStep(b, ts), d, ts)

\* create_genesis_block with the genesis block numbered 1.
create_genesis_block_from_one(d, t, ts) ==
    mine_block(Block(1, SentinelHash, t, GenesisData, ts), d, ts)

\* create_genesis_block at time t
create_genesis_block(d, t, ts) ==
    mine_block(Block(0, SentinelHash, t, GenesisData, ts), d, ts)

\* is_valid_new_block with the proof-of-work check left out.
FailedCheckNoWork(new_block, previous_block, d, ts) ==
    IF previous_block.index + 1 # new_block.index THEN 1
    ELSE IF previous_block.hash # new_block.previous_hash THEN 2
    ELSE IF calculate_hash(new_block, ts) # new_block.hash THEN 3
    ELSE 0

\* is_valid_new_block with the block hash checked before the link.
FailedCheckHashFirst(new_block, previous_block, d, ts) ==
    IF previous_block.index + 1 # new_block.index THEN 1
    ELSE IF calculate_hash(new_block, ts) # new_block.hash THEN 3
    ELSE IF previous_block.hash # new_block.previous_hash THEN 2
    ELSE IF Slice(new_block.hash.hex, d) # Zeros(d) THEN 4
    ELSE 0

\* is_valid_new_block asking for one more "0" than mine_block searches for.
FailedCheckOneMore(new_block, previous_block, d, ts) ==
    IF previous_block.index + 1 # new_block.index THEN 1
    ELSE IF previous_block.hash # new_block.previous_hash THEN 2
    ELSE IF calculate_hash(new_block, ts) # new_block.hash THEN 3
    ELSE IF Slice(new_block.hash.hex, d + 1) # Zeros(d + 1) THEN 4
    ELSE 0

\* is_valid_new_block: the number of the first check that fails, 0 when none does
\* (1 index, 2 previous hash, 3 block hash, 4 proof of work).
FailedCheck(new_block, previous_block, d, ts) ==
    IF previous_block.index + 1 # new_block.index THEN 1
    ELSE IF previous_block.hash # new_block.previous_hash THEN 2
    ELSE IF calculate_hash(new_block, ts) # new_block.hash THEN 3
    ELSE IF Slice(new_block.hash.hex, d) # Zeros(d) THEN 4
    ELSE 0

is_valid_new_block(new_block, previous_block, d, ts) ==
    FailedCheck(new_block, previous_block, d, ts) = 0

\* is_chain_valid, the body of the loop for for i (a 0-based position): the
\* number of the first check that fails at i, 0 when none does
\* (1 previous hash, 2 block hash, 3 proof of work).
ChainCheck(c, i, d, ts) ==
    LET previous_block == c[i]
        current_block == c[i + 1]
    IN  IF current_block.previous_hash # previous_block.hash THEN 1
        ELSE IF current_block.hash # calculate_hash(current_block, ts) THEN 2
        ELSE IF Slice(current_block.hash.hex, d) # Zeros(d) THEN 3
        ELSE 0

\* The positions range(1, len(self.chain)) at which a check fails.
BadPositions(c, d, ts) == {i \in 1..(Len(c) - 1) : ChainCheck(c, i, d, ts) # 0}

\* The position is_chain_valid reports, -1 when it returns True.
FirstBad(c, d, ts) ==
    LET bad == BadPositions(c, d, ts)
    IN  IF bad = {} THEN -1 ELSE CHOOSE i \in bad : \A j \in bad : i <= j

ChainValid(c, d, ts) == FirstBad(c, d, ts) = -1

(***************************************************************************)
(* What a call returns (and, for the validations, what it prints).         *)
(***************************************************************************)
Returned(op, arg, ok, at, check) ==
    [op |-> op, arg |-> arg, ok |-> ok, at |-> at, check |-> check]

NoTamper == [k |-> -1, field |-> "", rederived |-> FALSE]

\* A mine_block call: pc is "loop" while the search runs, "done" when it has
\* returned to `by`, "idle" when `by` has returned too; start is the block as
\* it was passed in, how the kind of append_block call ("None" or "data").
Mining(pc, by, how, start) == [pc |-> pc, by |-> by, how |-> how, start |-> start]

\* Blockchain(difficulty): the state when the constructor returns.  Time is
\* counted from the constructor's time.time() call, which returns 1.
Init ==
    /\ difficulty \in 0..MaxDifficulty
    /\ clock = 1
    /\ entry_timestamp = [e \in Entries |-> 0]
    /\ pending_transactions = <<>>
    /\ chain = <<create_genesis_block(difficulty, clock, entry_timestamp)>>
    /\ returned = Returned("Blockchain", "", TRUE, 0, 0)
    /\ tampered = NoTamper
    /\ candidate = chain[1]
    /\ calls = 0
    /\ mining = Mining("idle", "create_genesis_block", "",
                       Block(0, SentinelHash, clock, GenesisData, entry_timestamp))

\* add_transaction(transaction), transaction the object e, time.time() = t
add_transaction(e, t) ==
    /\ clock' = t
    /\ entry_timestamp' = [entry_timestamp EXCEPT ![e] = t]
    /\ pending_transactions' = Append(pending_transactions, e)
    /\ returned' = Returned("add_transaction", "", TRUE, 0, 0)
    /\ calls' = calls + 1
    /\ UNCHANGED <<chain, difficulty, tampered, candidate, mining>>

\* append_block where an empty pool gives {} in place of {'transactions': []}.
BlockDataNoWrap(supplied, arg) ==
    IF supplied THEN arg
    ELSE IF pending_transactions = <<>> THEN EmptyData
    ELSE TransactionsData(pending_transactions)

\* append_block, the data that goes into the block: the argument, or for
\* data=None {'transactions': self.pending_transactions.copy()}
BlockData(supplied, arg) ==
    IF supplied THEN arg ELSE TransactionsData(pending_transactions)

\* append_block where the pool is not emptied.
PoolAfterKept(supplied) == pending_transactions

\* append_block emptying the pool whatever data is.
PoolAfterCleared(supplied) == <<>>

\* append_block, the pool afterwards: emptied when data is None
PoolAfter(supplied) == IF supplied THEN pending_transactions ELSE <<>>

\* append_block(data), time.time() = t: supplied is FALSE for data=None
append_block(supplied, arg, t) ==
    /\ LET latest_block == get_latest_block
           new_block == mine_block(
               Block(latest_block.index + 1, latest_block.hash, t,
                     BlockData(supplied, arg), entry_timestamp),
               difficulty, entry_timestamp)
           how == IF supplied THEN "data" ELSE "None"
       IN  /\ clock' = t
           /\ pending_transactions' = PoolAfter(supplied)
           /\ IF is_valid_new_block(new_block, latest_block, difficulty,
                                    entry_timestamp)
              THEN /\ chain' = Append(chain, new_block)
                   /\ returned' = Returned("append_block", how, TRUE,
                                           new_block.index, 0)
              ELSE /\ chain' = chain
                   /\ returned' = Returned("append_block", how, FALSE, 0,
                          FailedCheck(new_block, latest_block, difficulty,
                                      entry_timestamp))
    /\ calls' = calls + 1
    /\ UNCHANGED <<difficulty, entry_timestamp, tampered, candidate, mining>>

\* is_chain_valid()
is_chain_valid ==
    /\ returned' = Returned("is_chain_valid", "",
           ChainValid(chain, difficulty, entry_timestamp),
           FirstBad(chain, difficulty, entry_timestamp),
           IF ChainValid(chain, difficulty, entry_timestamp) THEN 0
           ELSE ChainCheck(chain, FirstBad(chain, difficulty, entry_timestamp),
                           difficulty, entry_timestamp))
    /\ UNCHANGED <<chain, difficulty, pending_transactions, entry_timestamp,
                   clock, tampered, candidate, calls, mining>>

\* The values time.time() can return to the next add_transaction or
\* append_block call: the clock does not run backwards.  No call is made once
\* `limit` calls were made, or once the caller has written to a block.
CallTimes(limit) ==
    IF calls < limit /\ tampered = NoTamper THEN clock..MaxTime ELSE {}

\* The calls a caller makes.
Next ==
    \/ \E e \in Entries, t \in CallTimes(MaxCalls) : add_transaction(e, t)
    \/ \E t \in CallTimes(MaxCalls) : append_block(FALSE, EmptyData, t)
    \/ \E arg \in SuppliedData, t \in CallTimes(MaxCalls) :
          append_block(TRUE, arg, t)
    \/ is_chain_valid

InitLow == Init /\ difficulty <= LowDifficulty

Spec == InitLow /\ [][Next]_vars

\* The same calls on the chains of every difficulty 0..MaxDifficulty.
NextAnyDifficulty ==
    \/ \E e \in Entries, t \in CallTimes(MaxCallsAnyDifficulty) :
          add_transaction(e, t)
    \/ \E t \in CallTimes(MaxCallsAnyDifficulty) :
          append_block(FALSE, EmptyData, t)
    \/ \E arg \in SuppliedData, t \in CallTimes(MaxCallsAnyDifficulty) :
          append_block(TRUE, arg, t)
    \/ is_chain_valid

SpecAnyDifficulty == Init /\ [][NextAnyDifficulty]_vars

(***************************************************************************)
(* The caller writing an attribute of a block of the chain.  Block and     *)
(* Blockchain keep their attributes public: block.nonce = ..., or          *)
(* chain.chain[k].data = ..., is an assignment like any other.  The write  *)
(* is either left as it is, or followed by the re-derivation of the hash:  *)
(* block.hash = block.calculate_hash(); chain.mine_block(block).           *)
(***************************************************************************)
TamperFields == {"index", "previous_hash", "timestamp", "data", "nonce", "hash"}

\* The values written to field f of block b, each different from the old one.
TamperValues(b, f) ==
    CASE f = "index" -> {b.index + 1} \cup ({b.index - 1} \cap Nat)
      [] f = "previous_hash" -> {SentinelHash, b.hash} \ {b.previous_hash}
      [] f = "timestamp" -> (1..(MaxTime + 1)) \ {b.timestamp}
      [] f = "data" -> {MessageData("forged"), EmptyData} \ {b.data}
      [] f = "nonce" -> {b.nonce + 1}
      [] f = "hash" ->
            {b.previous_hash,
             calculate_hash([b EXCEPT !.nonce = b.nonce + 1], entry_timestamp)}
                \ {b.hash}

\* block.hash = block.calculate_hash(); self.mine_block(block)
Rederive(b, d, ts) == mine_block([b EXCEPT !.hash = calculate_hash(b, ts)], d, ts)

\* k is the position of the block in the chain, from 0.
Tamper(k, f, rederive) ==
    /\ tampered = NoTamper
    /\ k < Len(chain)
    /\ rederive => f # "hash"
    /\ \E v \in TamperValues(chain[k + 1], f) :
         LET b == [chain[k + 1] EXCEPT ![f] = v]
         IN  chain' = [chain EXCEPT ![k + 1] =
                          IF rederive
                          THEN Rederive(b, difficulty, entry_timestamp)
                          ELSE b]
    /\ tampered' = [k |-> k, field |-> f, rederived |-> rederive]
    /\ returned' = Returned("tamper", "", TRUE, 0, 0)
    /\ UNCHANGED <<difficulty, pending_transactions, entry_timestamp, clock,
                   candidate, calls, mining>>

\* The chain is built through its operations, a caller then writes one
\* attribute of one block, and the chain is validated.
NextTamper ==
    \/ \E e \in Entries, t \in CallTimes(MaxCalls) : add_transaction(e, t)
    \/ \E t \in CallTimes(MaxCalls) : append_block(FALSE, EmptyData, t)
    \/ \E arg \in SuppliedData, t \in CallTimes(MaxCalls) :
          append_block(TRUE, arg, t)
    \/ \E k \in 0..MaxCalls, f \in TamperFields, r \in BOOLEAN :
          Tamper(k, f, r)
    \/ is_chain_valid

SpecTamper == InitLow /\ [][NextTamper]_vars

(***************************************************************************)
(* is_valid_new_block on blocks a caller built: a previous block           *)
(* (the mined genesis block of the chain) and a new block whose six        *)
(* attributes are drawn independently, the hash either the digest of the   *)
(* other five or the digest left by another nonce.                         *)
(***************************************************************************)
CandidateBlocks(previous_block) ==
    {[index |-> i, previous_hash |-> ph, timestamp |-> t, data |-> dt,
      nonce |-> n,
      hash |-> Sha256(BlockString(i, ph, t, dt, hn, entry_timestamp))] :
        i \in {previous_block.index, previous_block.index + 1},
        ph \in {previous_block.hash, SentinelHash},
        t \in Times, dt \in SuppliedData,
        n \in 0..MaxNonce, hn \in 0..MaxNonce}

InitCandidate ==
    /\ Init
    /\ difficulty <= MaxCandidateDifficulty

\* the caller builds new_block
build_candidate ==
    /\ returned.op = "Blockchain"
    /\ candidate' \in CandidateBlocks(get_latest_block)
    /\ returned' = Returned("Block", "", TRUE, 0, 0)
    /\ UNCHANGED <<chain, difficulty, pending_transactions, entry_timestamp,
                   clock, tampered, calls, mining>>

\* chain.is_valid_new_block(new_block, chain.get_latest_block())
call_is_valid_new_block ==
    /\ returned.op = "Block"
    /\ returned' = Returned("is_valid_new_block", "",
           is_valid_new_block(candidate, get_latest_block, difficulty,
                              entry_timestamp),
           0,
           FailedCheck(candidate, get_latest_block, difficulty,
                       entry_timestamp))
    /\ UNCHANGED <<chain, difficulty, pending_transactions, entry_timestamp,
                   clock, tampered, candidate, calls, mining>>

NextCandidate == build_candidate \/ call_is_valid_new_block

SpecCandidate == InitCandidate /\ [][NextCandidate]_vars

(***************************************************************************)
(* mine_block pass by pass.  The constructor, create_genesis_block and     *)
(* append_block are followed through their mine_block call: the block      *)
(* being mined is `candidate`, mutated in place by each pass of the loop.  *)
(* A caller also calls mine_block itself, on blocks whose nonce and hash   *)
(* it has set: the hash is the digest of the fields, or the digest left by *)
(* another nonce.  Difficulties are the valid ones and those around the    *)
(* ends of the digest: the constructor takes any integer.                  *)
(***************************************************************************)
MineDifficulties ==
    (0..MaxDifficulty)
        \cup {DigestLen, DigestLen + 1, -1, 1 - DigestLen, -DigestLen, -DigestLen - 1}

\* A search is followed up to this nonce.  A search that can end ends before
\* it: the nonces start at MaxNonce at most, and every ZeroPeriod consecutive
\* nonces hold one for each number of leading "0".
MaxSearchNonce == MaxNonce + ZeroPeriod

\* The blocks a caller passes to mine_block.
MineInputs(previous_block) ==
    {b \in CandidateBlocks(previous_block) :
        /\ b.index = previous_block.index + 1
        /\ b.previous_hash = previous_block.hash
        /\ b.hash \in {calculate_hash(b, entry_timestamp),
                       calculate_hash([b EXCEPT !.nonce = b.nonce + 1],
                                      entry_timestamp)}}

\* Blockchain(difficulty) up to the mine_block call of create_genesis_block:
\* self.chain = [], the genesis block built, its search about to start.
InitMine ==
    /\ difficulty \in MineDifficulties
    /\ clock = 1
    /\ entry_timestamp = [e \in Entries |-> 0]
    /\ pending_transactions = <<>>
    /\ chain = <<>>
    /\ candidate = Block(0, SentinelHash, clock, GenesisData, entry_timestamp)
    /\ mining = Mining("loop", "create_genesis_block", "", candidate)
    /\ returned = Returned("Block", "", TRUE, 0, 0)
    /\ tampered = NoTamper
    /\ calls = 0

\* while block.hash[:self.difficulty] != target: one pass
mine_block_pass ==
    /\ mining.pc = "loop"
    /\ ~MeetsTarget(candidate.hash, difficulty)
    /\ candidate.nonce < MaxSearchNonce
    /\ candidate' = MineStep(candidate, entry_timestamp)
    /\ UNCHANGED <<chain, difficulty, pending_transactions, entry_timestamp,
                   clock, returned, tampered, calls, mining>>

\* the loop condition is false: return block
mine_block_return ==
    /\ mining.pc = "loop"
    /\ MeetsTarget(candidate.hash, difficulty)
    /\ mining' = [mining EXCEPT !.pc = "done"]
    /\ returned' = Returned("mine_block", "", TRUE, candidate.nonce, 0)
    /\ UNCHANGED <<chain, difficulty, pending_transactions, entry_timestamp,
                   clock, tampered, candidate, calls>>

\* create_genesis_block after mine_block: self.chain.append(genesis_block),
\* and the constructor returns.
create_genesis_block_append ==
    /\ mining.pc = "done"
    /\ mining.by = "create_genesis_block"
    /\ chain' = Append(chain, candidate)
    /\ mining' = [mining EXCEPT !.pc = "idle"]
    /\ returned' = Returned("Blockchain", "", TRUE, 0, 0)
    /\ UNCHANGED <<difficulty, pending_transactions, entry_timestamp, clock,
                   tampered, candidate, calls>>

\* No call is in progress: the constructor has returned, and so has the last
\* append_block or mine_block call.
Idle ==
    /\ chain # <<>>
    /\ \/ mining.pc = "idle"
       \/ mining.pc = "done" /\ mining.by = "caller"

\* The blocks the caller can pass to mine_block now: it makes these calls on
\* the chain as constructed, between two searches.
CallerBlocks == IF Idle /\ calls = 0 THEN MineInputs(chain[1]) ELSE {}

\* The caller calls mine_block(b).
call_mine_block(b) ==
    /\ candidate' = b
    /\ mining' = Mining("loop", "caller", "", b)
    /\ returned' = Returned("Block", "", TRUE, 0, 0)
    /\ UNCHANGED <<chain, difficulty, pending_transactions, entry_timestamp,
                   clock, tampered, calls>>

\* append_block(data) up to its mine_block call (lines 216-231)
append_block_call(supplied, arg, t) ==
    /\ Idle
    /\ clock' = t
    /\ pending_transactions' = PoolAfter(supplied)
    /\ candidate' = Block(get_latest_block.index + 1, get_latest_block.hash, t,
                          BlockData(supplied, arg), entry_timestamp)
    /\ mining' = Mining("loop", "append_block",
                        IF supplied THEN "data" ELSE "None", candidate')
    /\ returned' = Returned("Block", "", TRUE, 0, 0)
    /\ calls' = calls + 1
    /\ UNCHANGED <<chain, difficulty, entry_timestamp, tampered>>

\* append_block after mine_block (lines 234-240)
append_block_return ==
    /\ mining.pc = "done"
    /\ mining.by = "append_block"
    /\ IF is_valid_new_block(candidate, get_latest_block, difficulty,
                             entry_timestamp)
       THEN /\ chain' = Append(chain, candidate)
            /\ returned' = Returned("append_block", mining.how, TRUE,
                                    candidate.index, 0)
       ELSE /\ chain' = chain
            /\ returned' = Returned("append_block", mining.how, FALSE, 0,
                   FailedCheck(candidate, get_latest_block, difficulty,
                               entry_timestamp))
    /\ mining' = [mining EXCEPT !.pc = "idle"]
    /\ UNCHANGED <<difficulty, pending_transactions, entry_timestamp, clock,
                   tampered, candidate, calls>>

\* The values time.time() can return to a call made between two searches.
MineCallTimes == IF Idle THEN CallTimes(MaxCallsAnyDifficulty) ELSE {}

NextMine ==
    \/ mine_block_pass
    \/ mine_block_return
    \/ create_genesis_block_append
    \/ \E b \in CallerBlocks : call_mine_block(b)
    \/ \E e \in Entries, t \in MineCallTimes : add_transaction(e, t)
    \/ \E t \in MineCallTimes : append_block_call(FALSE, EmptyData, t)
    \/ \E arg \in SuppliedData, t \in MineCallTimes : append_block_call(TRUE, arg, t)
    \/ append_block_return

SpecMine == InitMine /\ [][NextMine]_vars

\* The interpreter runs the loop on: a pass that can be made is made, and a
\* search whose condition is false returns.
SpecMineFair ==
    SpecMine /\ WF_vars(mine_block_pass) /\ WF_vars(mine_block_return)

(***************************************************************************)
(* Properties.                                                             *)
(***************************************************************************)
LastBlock(c) == c[Len(c)]

\* h starts with d characters "0"
StartsWithZeros(h, d) == \A j \in 1..d : j <= Len(h.hex) /\ h.hex[j] = 0

\* A step in which append_block(None) returns.
MintNoPayloadStep == returned'.op = "append_block" /\ returned'.arg = "None"

\* C1: Link continuity.  In every state reached from Blockchain(difficulty)
\* by add_transaction and append_block calls, each block's previous_hash is
\* the hash of the block before it, and is_chain_valid() returns True.
C1_LinkContinuityAndValid ==
    /\ \A i \in 2..Len(chain) : chain[i].previous_hash = chain[i - 1].hash
    /\ returned.op = "is_chain_valid" => returned.ok

\* C2: Difficulty satisfaction.  For every difficulty 0..MaxDifficulty, in
\* every state, the hash of every block of the chain, the genesis block
\* included, starts with `difficulty` characters "0".
C2_DifficultySatisfaction ==
    \A i \in 1..Len(chain) : StartsWithZeros(chain[i].hash, difficulty)

\* C2 witness: a chain of difficulty 4 with a block that had to be searched for.
C2_Witness ==
    /\ difficulty = 4
    /\ Len(chain) >= 2
    /\ \E i \in 1..Len(chain) : chain[i].nonce > 0
    /\ \E i \in 1..Len(chain) : chain[i].nonce = 0

C3_Contiguous ==
    /\ Len(chain) >= 1
    /\ chain[1].index = 0
    /\ chain[1].previous_hash = SentinelHash
    /\ \A i \in 2..Len(chain) : chain[i].index = chain[i - 1].index + 1
    /\ \A i \in 1..Len(chain) : chain[i].index = i - 1

C3_GrowsAtEnd ==
    IF returned'.op = "append_block" /\ returned'.ok
    THEN /\ Len(chain') = Len(chain) + 1
         /\ chain' = Append(chain, LastBlock(chain'))
    ELSE chain' = chain

\* C3: Index contiguity.  In every state the chain is non-empty, its first
\* block has index 0 and previous_hash "0", every later block's index is its
\* predecessor's plus one (so the block at position i has index i); and a step
\* changes the chain only by appending one block, which it does exactly when
\* append_block returns a block.
C3_IndexContiguity == [](C3_Contiguous) /\ [][C3_GrowsAtEnd]_vars

\* C3 witness: a full chain, the last block appended by the last call.
C3_Witness ==
    /\ Len(chain) = 3
    /\ returned.op = "append_block" /\ returned.ok
    /\ returned.at = Len(chain) - 1

\* C9: append_block() without data appends a block whose payload is
\* {'transactions': the references the pool held at the call, in their
\* order}, the objects unchanged, with index = latest.index + 1 and
\* previous_hash = latest.hash; the pool is empty afterwards.
C9_MintDrainsPool ==
    [][MintNoPayloadStep =>
         /\ returned'.ok
         /\ chain' = Append(chain, LastBlock(chain'))
         /\ returned'.at = LastBlock(chain').index
         /\ LastBlock(chain').data = TransactionsData(pending_transactions)
         /\ entry_timestamp' = entry_timestamp
         /\ LastBlock(chain').index = LastBlock(chain).index + 1
         /\ LastBlock(chain').previous_hash = LastBlock(chain).hash
         /\ pending_transactions' = <<>>]_vars

\* C9 witness: append_block() has returned a block holding two different
\* transactions in the order they were added, second object first.
C9_Witness ==
    /\ returned.op = "append_block" /\ returned.arg = "None" /\ returned.ok
    /\ LastBlock(chain).data = TransactionsData(<<2, 1>>)
    /\ pending_transactions = <<>>

\* C10: append_block() without data and with an empty pool is no error: it
\* appends and returns a block whose payload is {'transactions': []}, and a
\* chain that is_chain_valid() accepted before the call is accepted after it.
C10_EmptyMint ==
    [][MintNoPayloadStep /\ pending_transactions = <<>> =>
         /\ returned'.ok
         /\ chain' = Append(chain, LastBlock(chain'))
         /\ returned'.at = LastBlock(chain').index
         /\ LastBlock(chain').data = TransactionsData(<<>>)
         /\ ChainValid(chain, difficulty, entry_timestamp)
              => ChainValid(chain', difficulty', entry_timestamp')]_vars

\* C10 witness: an empty-pool append_block() has returned its block, a block
\* that took a search, and the chain is valid.
C10_Witness ==
    /\ returned.op = "append_block" /\ returned.arg = "None" /\ returned.ok
    /\ LastBlock(chain).data = TransactionsData(<<>>)
    /\ LastBlock(chain).nonce > 0
    /\ ChainValid(chain, difficulty, entry_timestamp)

\* C4: Tamper detection.  After one attribute of the block at position
\* k > 0 is written and its hash is not re-derived, is_chain_valid() returns
\* False and the position it reports is k or greater.
C4_TamperDetected ==
    (returned.op = "is_chain_valid" /\ tampered.k > 0 /\ ~tampered.rederived)
        => (~returned.ok /\ returned.at >= tampered.k)

\* C5: is_chain_valid() checks index continuity: whenever some block's index is
\* not its predecessor's plus one, it returns False, also when every block's
\* previous_hash link, stored hash and proof of work are consistent.
C5_IndexGapRejected ==
    (/\ returned.op = "is_chain_valid"
     /\ \E i \in 2..Len(chain) : chain[i].index # chain[i - 1].index + 1
     /\ \A i \in 2..Len(chain) : chain[i].previous_hash = chain[i - 1].hash
     /\ \A i \in 1..Len(chain) :
          /\ chain[i].hash = calculate_hash(chain[i], entry_timestamp)
          /\ StartsWithZeros(chain[i].hash, difficulty))
        => ~returned.ok

\* C6: is_chain_valid() returns True only if every block passes: whenever some
\* block, the first included, has a stored hash that is not the digest of its
\* fields, or a hash without `difficulty` leading "0", it returns False.
C6_EveryBlockChecked ==
    (returned.op = "is_chain_valid"
       /\ \E i \in 1..Len(chain) :
            \/ chain[i].hash # calculate_hash(chain[i], entry_timestamp)
            \/ ~StartsWithZeros(chain[i].hash, difficulty))
        => ~returned.ok

\* The four conditions of is_valid_new_block, each on its own.
IndexOk == candidate.index = LastBlock(chain).index + 1
LinkOk == candidate.previous_hash = LastBlock(chain).hash
HashOk == calculate_hash(candidate, entry_timestamp) = candidate.hash
WorkOk == StartsWithZeros(candidate.hash, difficulty)

ConditionOk(n) ==
    CASE n = 1 -> IndexOk
      [] n = 2 -> LinkOk
      [] n = 3 -> HashOk
      [] n = 4 -> WorkOk

\* C7: is_valid_new_block(new_block, previous_block) returns True exactly
\* when the index is the previous one plus one, previous_hash is the previous
\* block's hash, the stored hash is the digest of the fields, and the hash
\* starts with `difficulty` characters "0".
C7_CandidateAcceptedIff ==
    returned.op = "is_valid_new_block"
        => (returned.ok <=> (IndexOk /\ LinkOk /\ HashOk /\ WorkOk))

\* C7 witness: a candidate found by a search (nonce > 0) at difficulty 2 was
\* accepted.
C7_Witness ==
    /\ returned.op = "is_valid_new_block" /\ returned.ok
    /\ difficulty = 2
    /\ candidate.nonce > 0

\* C8: is_valid_new_block reports the lowest-numbered check that fails: the
\* check it stops at fails and every check before it passes; a candidate with
\* the right index, a wrong previous_hash, a stored hash that is the digest of
\* its fields and enough leading "0" is rejected at check 2.
C8_FirstFailureReported ==
    returned.op = "is_valid_new_block" =>
        /\ returned.check \in 0..4
        /\ returned.check = 0 => \A n \in 1..4 : ConditionOk(n)
        /\ returned.check # 0 =>
              /\ ~ConditionOk(returned.check)
              /\ \A n \in 1..(returned.check - 1) : ConditionOk(n)
        /\ (IndexOk /\ ~LinkOk /\ HashOk /\ WorkOk) => returned.check = 2

\* C8 witness: a candidate that fails only the link check was rejected at
\* check 2, at a difficulty where the proof of work is not vacuous.
C8_Witness ==
    /\ returned.op = "is_valid_new_block"
    /\ difficulty = 2
    /\ IndexOk /\ ~LinkOk /\ HashOk /\ WorkOk
    /\ returned.check = 2

\* The four conditions of is_valid_new_block on a block nb and the block pb
\* before it, stated on the blocks' fields.
PassesFourChecks(nb, pb, d, ts) ==
    /\ nb.index = pb.index + 1
    /\ nb.previous_hash = pb.hash
    /\ nb.hash = calculate_hash(nb, ts)
    /\ StartsWithZeros(nb.hash, d)

\* A step in which append_block returns, with or without data.
MintStep == returned'.op = "append_block"

\* C11: The failure branch of append_block is not reached: for every
\* difficulty 0..MaxDifficulty and every sequence of add_transaction and
\* append_block calls, each append_block call returns a block, no check of
\* is_valid_new_block failing, and the block mine_block gave it passes all
\* four checks against the block that was last before the call.
C11_MintNeverFails ==
    [][MintStep =>
         /\ returned'.ok
         /\ returned'.check = 0
         /\ PassesFourChecks(LastBlock(chain'), LastBlock(chain), difficulty',
                             entry_timestamp')]_vars

\* C11 witness: at the highest difficulty, append_block() has returned a block
\* that took a search, on a chain that already held an appended block.
C11_Witness ==
    /\ returned.op = "append_block" /\ returned.ok
    /\ difficulty = MaxDifficulty
    /\ Len(chain) = 3
    /\ LastBlock(chain).nonce > 0

\* C12: Append is all-or-nothing.  A step in which append_block returns
\* either leaves the chain as it was and returns failure, or extends it by
\* exactly one block, which passes the four checks against the block that was
\* last and is the block returned; every other step leaves the chain as it was.
C12_AppendAllOrNothing ==
    [][IF MintStep
       THEN \/ /\ ~returned'.ok
               /\ chain' = chain
            \/ /\ returned'.ok
               /\ Len(chain') = Len(chain) + 1
               /\ SubSeq(chain', 1, Len(chain)) = chain
               /\ PassesFourChecks(LastBlock(chain'), LastBlock(chain),
                                   difficulty', entry_timestamp')
               /\ returned'.at = LastBlock(chain').index
       ELSE chain' = chain]_vars

\* C12 witness: append_block(data) has extended a two-block chain by one
\* block holding the supplied payload, at a difficulty above 0.
C12_Witness ==
    /\ returned.op = "append_block" /\ returned.arg = "data" /\ returned.ok
    /\ difficulty > 0
    /\ Len(chain) = 3
    /\ LastBlock(chain).data \in SuppliedData
    /\ LastBlock(chain).previous_hash = chain[2].hash

\* C13: Appended blocks are frozen.  No step of add_transaction,
\* append_block or is_chain_valid changes a field of a block of the chain or
\* what its payload serialises to, and a block whose hash is the digest of
\* its fields before the step has it so after; the same when add_transaction
\* is given an object that an appended block's payload already holds.
C13_AppendedBlocksFrozen ==
    [][\A i \in 1..Len(chain) :
         /\ i <= Len(chain')
         /\ chain'[i] = chain[i]
         /\ DumpsData(chain[i].data, entry_timestamp')
              = DumpsData(chain[i].data, entry_timestamp)
         /\ chain[i].hash = calculate_hash(chain[i], entry_timestamp)
              => chain'[i].hash = calculate_hash(chain'[i], entry_timestamp')]_vars

\* The number of places of seq that hold e.
Occurrences(seq, e) == Cardinality({i \in 1..Len(seq) : seq[i] = e})

\* The places (block, position in its 'transactions' list) of the chain c.
PayloadPlaces(c) ==
    UNION {{<<i, j>> : j \in 1..Len(c[i].data.txs)} : i \in 1..Len(c)}

\* The number of places object e is held at: in the pool and in the payloads.
Held(c, pool, e) ==
    Occurrences(pool, e)
    + Cardinality({p \in PayloadPlaces(c) : c[p[1]].data.txs[p[2]] = e})

\* C18: append_block(data) with data supplied ({} included) leaves the pool
\* as it was and puts no pooled entry in its block; append_block() puts the
\* pool, in its order, in its block and empties it; and every step keeps, for
\* every object, the number of places that hold it (pool and payloads
\* together), but for add_transaction, which adds one place, at the end of the
\* pool: nothing enqueued is dropped or put in two blocks.
C18_SuppliedMintKeepsPool ==
    [][/\ (MintStep /\ returned'.arg = "data") =>
             /\ pending_transactions' = pending_transactions
             /\ LastBlock(chain').data \in SuppliedData
             /\ LastBlock(chain').data.txs = <<>>
       /\ MintNoPayloadStep =>
             /\ LastBlock(chain').data.txs = pending_transactions
             /\ pending_transactions' = <<>>
       /\ returned'.op = "add_transaction" =>
             \E e \in Entries :
                 pending_transactions' = Append(pending_transactions, e)
       /\ \A e \in Entries :
             Held(chain', pending_transactions', e)
               = Held(chain, pending_transactions, e)
                 + (IF /\ returned'.op = "add_transaction"
                       /\ pending_transactions' = Append(pending_transactions, e)
                    THEN 1 ELSE 0)]_vars

\* C18 witness: two entries were enqueued, append_block({}) left them in the
\* pool, and the next append_block() has put both, in order, in its block.
C18_Witness ==
    /\ returned.op = "append_block" /\ returned.arg = "None" /\ returned.ok
    /\ Len(chain) = 3
    /\ chain[2].data = EmptyData
    /\ chain[3].data = TransactionsData(<<1, 2>>)
    /\ pending_transactions = <<>>

(***************************************************************************)
(* Properties of mine_block, pass by pass.                                 *)
(***************************************************************************)
\* A mine_block call has been made and has not returned to more than its caller.
InMine == mining.pc \in {"loop", "done"}

\* C14: Hash integrity after mining.  At a difficulty 0..64, whenever
\* mine_block has returned, whatever nonce and hash the block was passed in
\* with, the block's hash is the digest of its fields.
C14_HashIntegrityAfterMine ==
    (mining.pc = "done" /\ difficulty \in 0..DigestLen)
        => candidate.hash = calculate_hash(candidate, entry_timestamp)

\* The fields mine_block is not to touch are those of block a in block b.
SameButNonceAndHash(a, b) ==
    /\ b.index = a.index
    /\ b.previous_hash = a.previous_hash
    /\ b.timestamp = a.timestamp
    /\ b.data = a.data

C15_FrameStep ==
    (mining.pc = "loop" /\ mining'.pc \in {"loop", "done"}) =>
        /\ SameButNonceAndHash(candidate, candidate')
        /\ DumpsData(candidate'.data, entry_timestamp')
             = DumpsData(candidate.data, entry_timestamp)
        /\ chain' = chain
        /\ difficulty' = difficulty
        /\ pending_transactions' = pending_transactions

\* C15: mine_block changes only the nonce and the hash of the block passed
\* to it.  At every step of the call, a pass of the loop or the return,
\* index, previous_hash, timestamp and data of the block, and chain,
\* difficulty and pending_transactions, are what they were before the step;
\* and at every point of the call the block's four fields are those it was
\* passed in with.
C15_MineFrame ==
    /\ [](InMine => SameButNonceAndHash(mining.start, candidate))
    /\ [][C15_FrameStep]_vars

\* C15 witness: mine_block has returned inside append_block(data), after a
\* search, with a transaction left in the pool.
C15_Witness ==
    /\ mining.pc = "done" /\ mining.by = "append_block" /\ mining.how = "data"
    /\ pending_transactions # <<>>
    /\ candidate.nonce > mining.start.nonce
    /\ difficulty > 0

\* Some nonce from the block's present one on gives a hash with `difficulty`
\* leading "0": the present one with the hash the block holds, a later one
\* with the digest of the fields.
SomeNonceAccepted ==
    \/ StartsWithZeros(candidate.hash, difficulty)
    \/ \E n \in (candidate.nonce + 1)..MaxSearchNonce :
          StartsWithZeros(
              calculate_hash([candidate EXCEPT !.nonce = n], entry_timestamp),
              difficulty)

\* C16: For a difficulty >= 0, a search that has a nonce to find, at or above
\* the block's nonce, eventually returns, and mine_block returns only with a
\* block whose hash has `difficulty` leading "0".  (The search is given no
\* number of passes to finish in: the witness is a search of more passes than
\* the difficulty.)
C16_MineTerminates ==
    /\ []((mining.pc = "done" /\ difficulty >= 0)
            => StartsWithZeros(candidate.hash, difficulty))
    /\ ((mining.pc = "loop" /\ difficulty >= 0 /\ SomeNonceAccepted)
            ~> mining.pc = "done")

\* C16 witness: at the highest difficulty a search has returned after more
\* passes than the difficulty.
C16_Witness ==
    /\ mining.pc = "done"
    /\ difficulty = MaxDifficulty
    /\ candidate.nonce - mining.start.nonce > MaxDifficulty
    /\ StartsWithZeros(candidate.hash, difficulty)

\* The hash the block of the present call holds when its nonce is n: the hash
\* it was passed in with at the starting nonce, the digest of its fields after.
HashAtNonce(n) ==
    IF n = mining.start.nonce THEN mining.start.hash
    ELSE calculate_hash([mining.start EXCEPT !.nonce = n], entry_timestamp)

\* C17: mine_block tests before each increment.  For a difficulty >= 0, when
\* it returns the nonce is the smallest n >= the starting nonce at which the
\* block's hash has `difficulty` leading "0", the hash is the hash at that
\* nonce, and no nonce in between was accepted; a block whose starting hash is
\* accepted comes back as it was passed in, which at difficulty 0 is every
\* block; and every block of a chain of difficulty 0 has nonce 0.
C17_SmallestNonce ==
    /\ (mining.pc = "done" /\ difficulty >= 0) =>
          /\ candidate.nonce >= mining.start.nonce
          /\ candidate.hash = HashAtNonce(candidate.nonce)
          /\ StartsWithZeros(HashAtNonce(candidate.nonce), difficulty)
          /\ \A n \in mining.start.nonce..(candidate.nonce - 1) :
                ~StartsWithZeros(HashAtNonce(n), difficulty)
          /\ StartsWithZeros(mining.start.hash, difficulty)
                => candidate = mining.start
          /\ difficulty = 0 => candidate = mining.start
    /\ difficulty = 0 => \A i \in 1..Len(chain) : chain[i].nonce = 0

\* C17 witness: a search from a nonce above 0 has returned two or more
\* nonces later, the nonce in between not accepted.
C17_Witness ==
    /\ mining.pc = "done" /\ mining.by = "caller"
    /\ difficulty > 0
    /\ mining.start.nonce > 0
    /\ candidate.nonce >= mining.start.nonce + 2
    /\ ~StartsWithZeros(HashAtNonce(mining.start.nonce + 1), difficulty)

\* The constructor has returned.
Constructed == chain # <<>>

\* C19 as stated: the constructor returns only for 0 <= difficulty <= 64; for
\* a difficulty below 0 or above 64 it never returns.
C19_ReturnsOnlyInRange == Constructed => difficulty \in 0..DigestLen

\* C19 as amended: the constructor returns only for 0 <= difficulty <= 64 or
\* difficulty <= -64; for -63 <= difficulty <= -1 and for difficulty > 64 the
\* comparison of the search never succeeds and the constructor never returns;
\* for difficulty <= -64 it returns at once, the genesis block as built.
C19_ReturnsInRangeOrFarBelow ==
    /\ Constructed => (difficulty \in 0..DigestLen \/ difficulty <= -DigestLen)
    /\ (difficulty \in (1 - DigestLen)..(-1) \/ difficulty > DigestLen) =>
          /\ ~Constructed
          /\ mining.pc = "loop" /\ mining.by = "create_genesis_block"
          /\ Len(candidate.hash.hex) = DigestLen
          /\ Len(Slice(candidate.hash.hex, difficulty)) # Len(Zeros(difficulty))
    /\ (Constructed /\ difficulty <= -DigestLen) =>
          chain[1] = Block(0, SentinelHash, chain[1].timestamp, GenesisData,
                           entry_timestamp)

\* C19 witness: Blockchain(-64) has returned, its genesis block not searched for.
C19_Witness ==
    /\ Constructed
    /\ difficulty = -DigestLen
    /\ chain[1].nonce = 0
    /\ ~StartsWithZeros(chain[1].hash, 1)

====
